---- MODULE Spec2Model ----
(***************************************************************************)
(* Price-alert bot (timhdm/crypto-alert-bot): the alerts table, the        *)
(* command handlers /add and /remove, and the background task              *)
(* check_alerts_loop of src/services.py (src/bot.py carries the same code).*)
(*                                                                         *)
(* Time unit: one hour.  The configuration modelled is                     *)
(* CHECK_INTERVAL_MINUTES=60, NOTIFY_COOLDOWN_HOURS=2.  Prices are small   *)
(* positive integers; only their order matters to the code.                *)
(* The task and the handlers run on one asyncio event loop: control        *)
(* changes hands only at an await, so every action below runs from one     *)
(* await to the next.  The wall clock moves while the task sleeps; a cycle  *)
(* itself takes no time, and a sleep lasts exactly the interval.           *)
(***************************************************************************)
EXTENDS Integers, Sequences, FiniteSets, TLC

\* ---------------------------------------------------------------- bounds
MaxId == 2                    \* rows ever inserted (AUTOINCREMENT values)
MaxTime == 3                  \* horizon of the wall clock, in hours
\* the /add commands the users send: (user_id, symbol, target_price)
Requests == {<<1, "BTCUSDT", 2>>, <<2, "ETHUSDT", 2>>}
Users == {r[1] : r \in Requests}
Prices == {1, 2, 3}

\* ------------------------------------------------- program configuration
interval_minutes == 60
cooldown_hours == 2

None == -1

cooldown == cooldown_hours
SleepHours == interval_minutes \div 60

VARIABLES
    table,          \* alerts table: id -> row
    seq,            \* sqlite_sequence of AUTOINCREMENT: largest id ever used
    removed,        \* history: ids for which remove_alert returned True
    clock,          \* wall clock (utcnow)
    pc,             \* position of check_alerts_loop
    alerts,         \* local: rows loaded by load_alerts
    pending,        \* fetch_prices: symbols still to fetch, in dict order
    prices,         \* dict symbol -> price built by fetch_prices
    now,            \* local: now = utcnow()
    i,              \* index of the `for alert in alerts` iteration (1-based)
    current_price,  \* local
    crossed,        \* local
    should_notify,  \* local
    err,            \* what raised in the current/last cycle ("none" if nothing)
    sent,           \* messages delivered by bot.send_message: {<<alert_id, now>>}
    notified        \* alert ids whose message was delivered in this cycle

vars == <<table, seq, removed, clock, pc, alerts, pending, prices, now, i,
          current_price, crossed, should_notify, err, sent, notified>>

loopVars == <<pc, alerts, pending, prices, now, i, current_price, crossed,
              should_notify, err, notified>>

\* ------------------------------------------------------------ conversions
\* datetime.isoformat() as stored in the TEXT column; NULL is the empty text
isoformat(t) == IF t = None THEN <<>> ELSE <<t>>

parse_iso(value) == IF value = <<>> THEN None ELSE value[1]

\* ------------------------------------------------------------------ store
RECURSIVE RowsFrom(_, _)
RowsFrom(tbl, id) ==
    IF id > MaxId + 1 THEN <<>>
    ELSE IF id \in DOMAIN tbl
         THEN <<[alert_id |-> id,
                 user_id |-> tbl[id].user_id,
                 symbol |-> tbl[id].symbol,
                 target_price |-> tbl[id].target_price,
                 last_price |-> tbl[id].last_price,
                 last_notified_at |-> parse_iso(tbl[id].last_notified_at)]>>
              \o RowsFrom(tbl, id + 1)
         ELSE RowsFrom(tbl, id + 1)

RECURSIVE Reversed(_)
Reversed(sq) == IF sq = <<>> THEN <<>> ELSE Reversed(Tail(sq)) \o <<Head(sq)>>

\* variant: the rows come back in descending id
load_alerts_rows_desc(tbl) == Reversed(RowsFrom(tbl, 1))

\* SELECT ... FROM alerts: a scan of the rowid table, ascending id
load_alerts_rows(tbl) == RowsFrom(tbl, 1)

RECURSIVE SymbolsFrom(_, _, _)
SymbolsFrom(as, k, seen) ==
    IF k > Len(as) THEN <<>>
    ELSE IF as[k].symbol \in seen THEN SymbolsFrom(as, k + 1, seen)
         ELSE <<as[k].symbol>> \o SymbolsFrom(as, k + 1, seen \cup {as[k].symbol})

\* variant: one entry per alert, a shared symbol more than once
SymbolsDict_per_alert(as) == [k \in 1 .. Len(as) |-> as[k].symbol]

\* symbols = {alert.symbol: None for alert in alerts}: keys in insertion order
SymbolsDict(as) == SymbolsFrom(as, 1, {})

\* variant: the statement does not set last_price
UpdateRow_no_price(tbl, id, lp, lna) ==
    IF id \in DOMAIN tbl
    THEN [tbl EXCEPT ![id].last_notified_at = isoformat(lna)]
    ELSE tbl

\* variant: the write inserts the row again when the id is gone
UpdateRow_upsert(tbl, id, lp, lna) ==
    IF id \in DOMAIN tbl
    THEN [tbl EXCEPT ![id].last_price = lp,
                     ![id].last_notified_at = isoformat(lna)]
    ELSE (id :> [user_id |-> 1, symbol |-> "BTCUSDT", target_price |-> 2,
                 last_price |-> lp, last_notified_at |-> isoformat(lna)]) @@ tbl

\* variant: the UPDATE has no WHERE clause
UpdateRow_all(tbl, id, lp, lna) ==
    [k \in DOMAIN tbl |->
        [tbl[k] EXCEPT !.last_price = lp, !.last_notified_at = isoformat(lna)]]

\* UPDATE alerts SET last_price = ?, last_notified_at = ? WHERE id = ?
UpdateRow(tbl, id, lp, lna) ==
    IF id \in DOMAIN tbl
    THEN [tbl EXCEPT ![id].last_price = lp,
                     ![id].last_notified_at = isoformat(lna)]
    ELSE tbl

\* variant: the unique index is missing
UniqueViolation_none(tbl, u, s, t) == FALSE

\* idx_alert_unique ON alerts (user_id, symbol, target_price)
UniqueViolation(tbl, u, s, t) ==
    \E id \in DOMAIN tbl :
        /\ tbl[id].user_id = u
        /\ tbl[id].symbol = s
        /\ tbl[id].target_price = t

\* variant: id INTEGER PRIMARY KEY without AUTOINCREMENT: largest rowid + 1
NextId_rowid(tbl, s) ==
    IF DOMAIN tbl = {} THEN 1
    ELSE (CHOOSE m \in DOMAIN tbl : \A k \in DOMAIN tbl : k <= m) + 1

\* id INTEGER PRIMARY KEY AUTOINCREMENT: one more than the largest id ever
\* used, which sqlite_sequence keeps
NextId(tbl, s) == s + 1

\* variant: the row is created with last_price already at the target
NewRow_seeded(u, s, t) ==
    [user_id |-> u, symbol |-> s, target_price |-> t,
     last_price |-> t, last_notified_at |-> <<>>]

\* INSERT INTO alerts (user_id, symbol, target_price): the other columns NULL
NewRow(u, s, t) ==
    [user_id |-> u, symbol |-> s, target_price |-> t,
     last_price |-> None, last_notified_at |-> <<>>]

InsertRow(tbl, id, u, s, t) == (id :> NewRow(u, s, t)) @@ tbl

\* add_alert returns True unless the INSERT raises IntegrityError
AddResult(tbl, u, s, t) == ~UniqueViolation(tbl, u, s, t)

\* variant: DELETE FROM alerts WHERE id = ?
DeleteRow_any_owner(tbl, u, id) ==
    [k \in DOMAIN tbl \ {id} |-> tbl[k]]

\* variant: DELETE FROM alerts WHERE user_id = ?
DeleteRow_all_of_user(tbl, u, id) ==
    [k \in {j \in DOMAIN tbl : tbl[j].user_id # u} |-> tbl[k]]

\* DELETE FROM alerts WHERE id = ? AND user_id = ?
DeleteRow(tbl, u, id) ==
    IF id \in DOMAIN tbl /\ tbl[id].user_id = u
    THEN [k \in DOMAIN tbl \ {id} |-> tbl[k]]
    ELSE tbl

RECURSIVE ListFrom(_, _, _)
ListFrom(tbl, u, id) ==
    IF id > MaxId + 1 THEN <<>>
    ELSE IF id \in DOMAIN tbl /\ tbl[id].user_id = u
         THEN <<[id |-> id, symbol |-> tbl[id].symbol,
                 target_price |-> tbl[id].target_price]>> \o ListFrom(tbl, u, id + 1)
         ELSE ListFrom(tbl, u, id + 1)

\* SELECT id, symbol, target_price FROM alerts WHERE user_id = ? ORDER BY id
list_alerts(tbl, u) == ListFrom(tbl, u, 1)

\* remove_alert returns cursor.rowcount > 0
RemoveResult(tbl, u, id) ==
    Cardinality(DOMAIN tbl) - Cardinality(DOMAIN DeleteRow(tbl, u, id)) > 0

\* ------------------------------------------------------------- evaluation
\* variant: the side of the previous price is not strict
Crossed_nonstrict(last_price, target_price, cur) ==
    IF last_price # None
    THEN \/ (last_price <= target_price /\ target_price <= cur)
         \/ (last_price >= target_price /\ target_price >= cur)
    ELSE FALSE

\* variant: the `is not None` test is missing
Crossed_unguarded(last_price, target_price, cur) ==
    \/ (last_price < target_price /\ target_price <= cur)
    \/ (last_price > target_price /\ target_price >= cur)

Crossed(last_price, target_price, cur) ==
    IF last_price # None
    THEN \/ (last_price < target_price /\ target_price <= cur)
         \/ (last_price > target_price /\ target_price >= cur)
    ELSE FALSE

\* variant: the cooldown test is `<=`
ShouldNotify_inclusive(c, last_notified_at, t) ==
    IF c /\ last_notified_at # None
    THEN IF t - last_notified_at <= cooldown THEN FALSE ELSE c
    ELSE c

ShouldNotify(c, last_notified_at, t) ==
    IF c /\ last_notified_at # None
    THEN IF t - last_notified_at < cooldown THEN FALSE ELSE c
    ELSE c

\* variant: the except clause does not cover delivery errors
Handler_narrow(e) == IF e = "send" THEN "terminated" ELSE "except"

\* where control goes when e is raised inside the try block:
\* `except Exception` catches every failure of the cycle
Handler(e) == "except"

\* the task is suspended at an await; only then can a command handler run
AtAwait == pc \in {"load", "fetch", "send", "update", "sleeping"}

\* ------------------------------------------------------------------- Init
Init ==
    /\ table = <<>>
    /\ seq = 0
    /\ removed = {}
    /\ clock = 0
    /\ pc = "load"
    /\ alerts = <<>>
    /\ pending = <<>>
    /\ prices = <<>>
    /\ now = 0
    /\ i = 1
    /\ current_price = None
    /\ crossed = FALSE
    /\ should_notify = FALSE
    /\ err = "none"
    /\ sent = {}
    /\ notified = {}

\* ------------------------------------------------------- command handlers
\* handle_add after validation -> add_alert
add_alert(u, s, t) ==
    /\ AtAwait
    /\ IF AddResult(table, u, s, t)
       THEN /\ NextId(table, seq) <= MaxId
            /\ table' = InsertRow(table, NextId(table, seq), u, s, t)
            /\ seq' = NextId(table, seq)
       ELSE UNCHANGED <<table, seq>>
    /\ UNCHANGED <<removed, clock, sent>>
    /\ UNCHANGED loopVars

\* handle_remove with a numeric id -> remove_alert
remove_alert(u, id) ==
    /\ AtAwait
    /\ table' = DeleteRow(table, u, id)
    /\ removed' = IF RemoveResult(table, u, id) THEN removed \cup {id} ELSE removed
    /\ UNCHANGED <<seq, clock, sent>>
    /\ UNCHANGED loopVars

\* ------------------------------------------------------ check_alerts_loop
\* alerts = await load_alerts(db_path); if alerts: symbols = {...}
load_alerts ==
    /\ pc = "load"
    /\ notified' = {}
    /\ \/ /\ alerts' = load_alerts_rows(table)
          /\ err' = "none"
          /\ pending' = SymbolsDict(alerts')
          /\ prices' = <<>>
          /\ pc' = IF alerts' = <<>> THEN "end" ELSE "fetch"
       \/ /\ err' = "load"
          /\ pc' = Handler(err')
          /\ UNCHANGED <<alerts, pending, prices>>
    /\ UNCHANGED <<table, seq, removed, clock, now, i, current_price, crossed,
                   should_notify, sent>>

\* one iteration of `for symbol in symbols` of fetch_prices; after the last
\* one the loop takes now = utcnow()
fetch_prices ==
    /\ pc = "fetch"
    /\ pending # <<>>
    /\ \/ \E p \in Prices :
            /\ prices' = (Head(pending) :> p) @@ prices
            /\ pending' = Tail(pending)
            /\ IF pending' = <<>>
               THEN /\ now' = clock
                    /\ i' = 1
                    /\ pc' = "iter"
               ELSE UNCHANGED <<now, i, pc>>
            /\ err' = err
       \/ /\ err' = "fetch"
          /\ pc' = Handler(err')
          /\ UNCHANGED <<prices, pending, now, i>>
    /\ UNCHANGED <<table, seq, removed, clock, alerts, current_price, crossed,
                   should_notify, sent, notified>>

\* loop body up to the first await: crossed, should_notify
evaluate ==
    /\ pc = "iter"
    /\ IF i > Len(alerts)
       THEN /\ pc' = "end"
            /\ UNCHANGED <<current_price, crossed, should_notify, i>>
       ELSE IF alerts[i].symbol \notin DOMAIN prices
       THEN /\ i' = i + 1
            /\ UNCHANGED <<pc, current_price, crossed, should_notify>>
       ELSE /\ current_price' = prices[alerts[i].symbol]
            /\ crossed' = Crossed(alerts[i].last_price, alerts[i].target_price,
                                  current_price')
            /\ should_notify' = ShouldNotify(crossed', alerts[i].last_notified_at, now)
            /\ pc' = IF should_notify' THEN "send" ELSE "update"
            /\ i' = i
    /\ UNCHANGED <<table, seq, removed, clock, alerts, pending, prices, now,
                   err, sent, notified>>

\* variant: a delivery error is swallowed and the state is persisted as if
\* the message had been delivered
send_message_swallow ==
    /\ pc = "send"
    /\ \/ /\ sent' = sent \cup {<<alerts[i].alert_id, now>>}
          /\ notified' = notified \cup {alerts[i].alert_id}
       \/ UNCHANGED <<sent, notified>>
    /\ pc' = "update"
    /\ UNCHANGED <<table, seq, removed, clock, alerts, pending, prices, now, i,
                   current_price, crossed, should_notify, err>>

\* await bot.send_message(alert.user_id, text)
send_message ==
    /\ pc = "send"
    /\ \/ /\ sent' = sent \cup {<<alerts[i].alert_id, now>>}
          /\ notified' = notified \cup {alerts[i].alert_id}
          /\ pc' = "update"
          /\ err' = err
       \/ /\ err' = "send"
          /\ pc' = Handler(err')
          /\ UNCHANGED <<sent, notified>>
    /\ UNCHANGED <<table, seq, removed, clock, alerts, pending, prices, now, i,
                   current_price, crossed, should_notify>>

\* await update_alert_state(db_path, alert.alert_id, current_price, ...)
update_alert_state ==
    /\ pc = "update"
    /\ \/ /\ table' = UpdateRow(table, alerts[i].alert_id, current_price,
                                IF should_notify THEN now
                                ELSE alerts[i].last_notified_at)
          /\ i' = i + 1
          /\ pc' = "iter"
          /\ err' = err
       \/ /\ err' = "update"
          /\ pc' = Handler(err')
          /\ UNCHANGED <<table, i>>
    /\ UNCHANGED <<seq, removed, clock, alerts, pending, prices, now,
                   current_price, crossed, should_notify, sent, notified>>

\* the try statement is left, normally or through the except clause, and
\* asyncio.sleep is called; the locals of the cycle are dead from here on
end_cycle ==
    /\ pc \in {"end", "except"}
    /\ pc' = "sleeping"
    /\ alerts' = <<>>
    /\ pending' = <<>>
    /\ prices' = <<>>
    /\ now' = 0
    /\ i' = 1
    /\ current_price' = None
    /\ crossed' = FALSE
    /\ should_notify' = FALSE
    /\ notified' = {}
    /\ UNCHANGED <<table, seq, removed, clock, err, sent>>

\* await asyncio.sleep(interval_minutes * 60) returns
sleep ==
    /\ pc = "sleeping"
    /\ clock + SleepHours <= MaxTime
    /\ clock' = clock + SleepHours
    /\ pc' = "load"
    /\ UNCHANGED <<table, seq, removed, alerts, pending, prices, now, i,
                   current_price, crossed, should_notify, err, sent, notified>>

check_alerts_loop ==
    \/ load_alerts
    \/ fetch_prices
    \/ evaluate
    \/ send_message
    \/ update_alert_state
    \/ end_cycle
    \/ sleep

handle_add == \E r \in Requests : add_alert(r[1], r[2], r[3])

handle_remove == \E u \in Users, id \in 1 .. MaxId : remove_alert(u, id)

Next ==
    \/ check_alerts_loop
    \/ handle_add
    \/ handle_remove

Spec == Init /\ [][Next]_vars

\* the clock of the model stops at MaxTime; the task goes on polling
sleep_at_horizon ==
    /\ pc = "sleeping"
    /\ clock + SleepHours > MaxTime
    /\ pc' = "load"
    /\ UNCHANGED <<table, seq, removed, clock, alerts, pending, prices, now, i,
                   current_price, crossed, should_notify, err, sent, notified>>

LiveNext == Next \/ sleep_at_horizon

\* the event loop resumes the task whenever the await it is suspended at
\* completes, and every await of the cycle returns or raises
LiveSpec == Init /\ [][LiveNext]_vars /\ WF_vars(check_alerts_loop \/ sleep_at_horizon)

\* ------------------------------------------ two users watch the same symbol
SharedRequests == {<<1, "BTCUSDT", 2>>, <<2, "BTCUSDT", 2>>}

handle_add_shared == \E r \in SharedRequests : add_alert(r[1], r[2], r[3])

SharedNext ==
    \/ check_alerts_loop
    \/ handle_add_shared
    \/ handle_remove

SharedSpec == Init /\ [][SharedNext]_vars

\* --------------------------------------------- the handlers on raw input
\* the texts the users send after /add and /remove
SymbolArgs == {"btcusdt", "ethusdt", "BTC-USD"}
PriceArgs == {"2", "3", "0", "-1", "abc", "1e-400", "NaN"}
AddArgs ==
    {<<>>} \cup {<<s>> : s \in SymbolArgs}
           \cup {<<s, p>> : s \in SymbolArgs, p \in PriceArgs}
RemoveArgs == {"", "x", "1", "2"}

\* str.upper() and str.isalnum() on the texts above
upper(s) ==
    CASE s = "btcusdt" -> "BTCUSDT"
      [] s = "ethusdt" -> "ETHUSDT"
      [] OTHER -> s

isalnum(s) == s \in {"btcusdt", "ethusdt", "BTCUSDT", "ETHUSDT"}

\* str.isdigit() and int() on the texts above
isdigit(s) == s \in {"1", "2"}

int(s) == CASE s = "1" -> 1 [] s = "2" -> 2

\* Decimal(value): coefficient and exponent; InvalidOperation when the text is
\* no number; "NaN" is accepted and is a Decimal that is no number
Decimal(v) ==
    CASE v = "2" -> [kind |-> "finite", coef |-> 2, exp |-> 0]
      [] v = "3" -> [kind |-> "finite", coef |-> 3, exp |-> 0]
      [] v = "0" -> [kind |-> "finite", coef |-> 0, exp |-> 0]
      [] v = "-1" -> [kind |-> "finite", coef |-> 0 - 1, exp |-> 0]
      [] v = "1e-400" -> [kind |-> "finite", coef |-> 1, exp |-> 0 - 400]
      [] v = "NaN" -> [kind |-> "nan", coef |-> 0, exp |-> 0]
      [] OTHER -> [kind |-> "InvalidOperation", coef |-> 0, exp |-> 0]

\* decimal exponent of the smallest positive double (5e-324)
MinDoubleExp == -324

RECURSIVE Pow10(_)
Pow10(e) == IF e <= 0 THEN 1 ELSE 10 * Pow10(e - 1)

\* float(price): the nearest double; a value below the smallest positive
\* double becomes 0.0 (the exponents at and below 0 used here are 0 and -400)
float(d) == IF d.exp < MinDoubleExp THEN 0 ELSE d.coef * Pow10(d.exp)

\* parse_price raises when `price <= 0` compares a NaN (InvalidOperation is
\* caught only around Decimal(value))
parse_price_raises(v) == Decimal(v).kind = "nan"

parse_price(v) ==
    IF Decimal(v).kind = "InvalidOperation" THEN None
    ELSE IF Decimal(v).coef <= 0 THEN None
    ELSE float(Decimal(v))

\* what handle_add answers to the parts of command.args
AddAnswer(tbl, u, parts) ==
    IF Len(parts) # 2 THEN "format"
    ELSE IF ~isalnum(upper(parts[1])) THEN "bad_symbol"
    ELSE IF parse_price_raises(parts[2]) THEN "raised"
    ELSE IF parse_price(parts[2]) = None THEN "bad_price"
    ELSE IF AddResult(tbl, u, upper(parts[1]), parse_price(parts[2])) THEN "added"
    ELSE "exists"

\* handle_add on a message of user u
handle_add_message(u, parts) ==
    IF AddAnswer(table, u, parts) \in {"added", "exists"}
    THEN add_alert(u, upper(parts[1]), parse_price(parts[2]))
    ELSE AtAwait /\ UNCHANGED vars

\* what handle_remove answers to command.args
RemoveAnswer(tbl, u, arg) ==
    IF ~isdigit(arg) THEN "format"
    ELSE IF RemoveResult(tbl, u, int(arg)) THEN "removed"
    ELSE "not_found"

\* handle_remove on a message of user u
handle_remove_message(u, arg) ==
    IF isdigit(arg)
    THEN remove_alert(u, int(arg))
    ELSE AtAwait /\ UNCHANGED vars

handle_add_messages == \E u \in Users, parts \in AddArgs : handle_add_message(u, parts)

handle_remove_messages == \E u \in Users, arg \in RemoveArgs : handle_remove_message(u, arg)

\* the handlers alone, on raw messages
CmdNext ==
    \/ handle_add_messages
    \/ handle_remove_messages

CmdSpec == Init /\ [][CmdNext]_vars

TypeOK ==
    /\ seq \in 0 .. MaxId
    /\ DOMAIN table \subseteq 1 .. seq
    /\ removed \subseteq 1 .. seq
    /\ clock \in 0 .. MaxTime
    /\ pc \in {"load", "fetch", "iter", "send", "update", "end", "except", "sleeping"}

\* the alert under evaluation, once crossed and should_notify are computed
Evaluated == pc \in {"send", "update"}

\* ------------------------------------------------------------------ claims

\* C1: for a loaded alert whose price was fetched, with previous price p,
\* target t and fetched price c, a crossing is reported exactly when p is
\* present and p < t <= c or p > t >= c; never when p is absent or p = t.
C1_CrossingReported ==
    Evaluated =>
        LET p == alerts[i].last_price
            t == alerts[i].target_price
            c == prices[alerts[i].symbol]
        IN /\ p = None => ~crossed
           /\ p = t => ~crossed
           /\ (p # None /\ p < t) => (crossed <=> c >= t)
           /\ p > t => (crossed <=> c <= t)

C1_Witness ==
    /\ pc = "send"
    /\ crossed
    /\ alerts[i].last_price > alerts[i].target_price
    /\ current_price = alerts[i].target_price

\* C2 (as claimed): when the fetch of one symbol fails, every loaded alert on
\* a symbol whose fetch succeeded is still evaluated and has its state updated
\* in that cycle.
C2_FetchFailureIsolated ==
    (pc = "except" /\ err = "fetch") =>
        \A k \in 1 .. Len(alerts) :
            (alerts[k].symbol \in DOMAIN prices /\ alerts[k].alert_id \in DOMAIN table)
                => table[alerts[k].alert_id].last_price = prices[alerts[k].symbol]

\* C3 (as claimed): when the delivery of the message of an alert fails, the
\* cycle still persists the fetched price as that alert's last_price.
C3_PricePersistedOnDeliveryFailure ==
    (pc = "except" /\ err = "send" /\ alerts[i].alert_id \in DOMAIN table)
        => table[alerts[i].alert_id].last_price = current_price

\* C4 (as claimed): a delivery failure for one alert does not block the rest
\* of the cycle: every later alert whose price was fetched has its state
\* persisted in that cycle.
C4_LaterAlertsPersisted ==
    (pc = "except" /\ err = "send") =>
        \A k \in (i + 1) .. Len(alerts) :
            (alerts[k].symbol \in DOMAIN prices /\ alerts[k].alert_id \in DOMAIN table)
                => table[alerts[k].alert_id].last_price = prices[alerts[k].symbol]

\* C5: whatever fails inside a cycle, the loop leaves the polling state, goes
\* to sleep and later starts another cycle: it sleeps infinitely often and it
\* polls infinitely often.
C5_LoopNeverTerminates ==
    /\ []<>(pc = "sleeping")
    /\ []<>(pc = "load")

\* a cycle failed in the delivery, and the loop is about to poll again
C5_Witness == pc = "load" /\ err = "send"

\* C6 (as claimed): two notifications delivered for the same alert are never
\* less than the cooldown apart.
C6_CooldownBetweenNotifications ==
    \A m1 \in sent, m2 \in sent :
        (m1[1] = m2[1] /\ m1[2] < m2[2]) => m2[2] - m1[2] >= cooldown

\* C7: when a crossing is detected for an alert with stored last_notified_at T
\* at cycle time T', the decision is to notify exactly when T is absent or
\* T' - T >= cooldown; within the cooldown it is not to notify, whatever the
\* direction.
C7_CooldownGate ==
    (Evaluated /\ crossed) =>
        LET T == alerts[i].last_notified_at
        IN should_notify <=> (T = None \/ now - T >= cooldown)

C7_Witness ==
    /\ pc = "update"
    /\ crossed
    /\ ~should_notify
    /\ now - alerts[i].last_notified_at < cooldown

\* C8: an alert whose last_price is absent is never notified in the cycle that
\* observes a price for it, whatever the target and the price.
C8_NoNotifyOnFirstPrice ==
    (Evaluated /\ alerts[i].last_price = None) => (pc = "update" /\ ~should_notify)

\* the alert added after row 1 was removed meets its first price, at or above
\* the target
C8_Witness ==
    /\ pc = "update"
    /\ alerts[i].alert_id = 2
    /\ 1 \notin DOMAIN table
    /\ alerts[i].last_price = None
    /\ current_price >= alerts[i].target_price

\* C9: an alert's last_notified_at is present only if a notification of that
\* alert was delivered at that time.
C9_NotifiedOnlyWhenDelivered ==
    \A id \in DOMAIN table :
        table[id].last_notified_at # <<>> =>
            <<id, parse_iso(table[id].last_notified_at)>> \in sent

\* the delivery failed for an alert that was notified in an earlier cycle
C9_Witness ==
    /\ pc = "except"
    /\ err = "send"
    /\ alerts[i].alert_id \in DOMAIN table
    /\ table[alerts[i].alert_id].last_notified_at # <<>>

\* C10: at the end of a cycle without failures every loaded alert (still in
\* the store) has last_price = the fetched price of its symbol, and
\* last_notified_at = now if it was notified in the cycle, else its value as
\* loaded.
C10_StateAfterCycle ==
    (pc = "end" /\ err = "none") =>
        \A k \in 1 .. Len(alerts) :
            alerts[k].alert_id \in DOMAIN table =>
                /\ alerts[k].symbol \in DOMAIN prices
                /\ table[alerts[k].alert_id].last_price = prices[alerts[k].symbol]
                /\ table[alerts[k].alert_id].last_notified_at =
                       isoformat(IF alerts[k].alert_id \in notified THEN now
                                 ELSE alerts[k].last_notified_at)

\* a cycle in which one alert was notified and another, notified earlier, was
\* not
C10_Witness ==
    /\ pc = "end"
    /\ notified # {}
    /\ \E k \in 1 .. Len(alerts) :
        /\ alerts[k].alert_id \notin notified
        /\ alerts[k].alert_id \in DOMAIN table
        /\ alerts[k].last_notified_at # None

\* C11 (as claimed): a failure of update_alert_state for one alert is not
\* fatal to the cycle: the alerts after it are still evaluated and persisted
\* in that cycle.
C11_UpdateFailureNotFatal ==
    (pc = "except" /\ err = "update") =>
        \A k \in (i + 1) .. Len(alerts) :
            (alerts[k].symbol \in DOMAIN prices /\ alerts[k].alert_id \in DOMAIN table)
                => table[alerts[k].alert_id].last_price = prices[alerts[k].symbol]

\* C12: the store never holds two alerts with the same (user_id, symbol,
\* target_price); an add of a triple that is not stored returns created and
\* stores one row of it, an add of a stored triple returns duplicate and leaves
\* the store unchanged.
SameTriple(r1, r2) ==
    /\ r1.user_id = r2.user_id
    /\ r1.symbol = r2.symbol
    /\ r1.target_price = r2.target_price

C12_UniqueTriple ==
    /\ [](\A a \in DOMAIN table, b \in DOMAIN table :
             SameTriple(table[a], table[b]) => a = b)
    /\ [][\A r \in Requests :
             add_alert(r[1], r[2], r[3]) =>
                 IF AddResult(table, r[1], r[2], r[3])
                 THEN Cardinality({id \in DOMAIN table' :
                          SameTriple(table'[id],
                                     [user_id |-> r[1], symbol |-> r[2],
                                      target_price |-> r[3]])}) = 1
                 ELSE table' = table]_vars

\* an alert is stored and the same /add can arrive again
C12_Witness ==
    /\ AtAwait
    /\ seq < MaxId
    /\ \E r \in Requests : ~AddResult(table, r[1], r[2], r[3])

\* C13: after add_alert(u, s, t) returns created, list_alerts(u) has an entry
\* of the new id with symbol s and target price t; after remove_alert(u, id)
\* returns removed, list_alerts(u) has no entry of that id; and no step of the
\* poll cycle changes what list_alerts returns.
ListIds(tbl, u) == {list_alerts(tbl, u)[k].id : k \in 1 .. Len(list_alerts(tbl, u))}

ListHas(tbl, u, s, t) ==
    \E k \in 1 .. Len(list_alerts(tbl, u)) :
        /\ list_alerts(tbl, u)[k].symbol = s
        /\ list_alerts(tbl, u)[k].target_price = t
        /\ list_alerts(tbl, u)[k].id \notin DOMAIN table

C13_RoundTrip ==
    [][/\ \A r \in Requests :
            (add_alert(r[1], r[2], r[3]) /\ AddResult(table, r[1], r[2], r[3]))
                => ListHas(table', r[1], r[2], r[3])
       /\ \A u \in Users, id \in 1 .. MaxId :
            (remove_alert(u, id) /\ RemoveResult(table, u, id))
                => id \notin ListIds(table', u)
       /\ check_alerts_loop =>
            \A u \in Users : list_alerts(table', u) = list_alerts(table, u)]_vars

\* an alert that earlier cycles have updated was removed during this cycle
\* and the list of its owner does not have it
C13_Witness ==
    \E k \in 1 .. Len(alerts) :
        /\ alerts[k].last_price # None
        /\ alerts[k].alert_id \notin DOMAIN table
        /\ alerts[k].alert_id \notin ListIds(table, alerts[k].user_id)
        /\ pc = "update"
        /\ i = k

\* C14: remove_alert(u, id) deletes the row of id only when it belongs to u,
\* and then returns true and deletes nothing else; when the id is absent or
\* belongs to another user it returns false and the store is unchanged.
C14_DeleteOnlyOwn ==
    [][\A u \in Users, id \in 1 .. MaxId :
          remove_alert(u, id) =>
              IF id \in DOMAIN table /\ table[id].user_id = u
              THEN /\ RemoveResult(table, u, id)
                   /\ DOMAIN table' = DOMAIN table \ {id}
                   /\ \A k \in DOMAIN table' : table'[k] = table[k]
              ELSE /\ ~RemoveResult(table, u, id)
                   /\ table' = table]_vars

\* two users have an alert each: a /remove can name the other user's id
C14_Witness ==
    /\ AtAwait
    /\ \E a \in DOMAIN table, b \in DOMAIN table :
           table[a].user_id # table[b].user_id

\* C15: a new row starts with last_price and last_notified_at absent, and the
\* last_price and last_notified_at of a stored row change only in the state
\* write of the poll cycle for that row: never in an add or a remove.
C15_OnlyCycleWritesState ==
    [][\A id \in DOMAIN table' :
          IF id \in DOMAIN table
          THEN (\/ table'[id].last_price # table[id].last_price
                \/ table'[id].last_notified_at # table[id].last_notified_at)
                   => (pc = "update" /\ pc' = "iter" /\ id = alerts[i].alert_id)
          ELSE /\ table'[id].last_price = None
               /\ table'[id].last_notified_at = <<>>]_vars

\* an alert added after another one has been polled and notified
C15_Witness ==
    \E a \in DOMAIN table, b \in DOMAIN table :
        /\ a < b
        /\ table[a].last_price # None
        /\ table[a].last_notified_at # <<>>
        /\ table[b].last_price = None
        /\ pc = "sleeping"

\* C16 (as claimed): an /add whose symbol is not alphanumeric or whose price
\* is not a positive number, and a /remove whose id is no number, is answered
\* with a rejection and leaves the store unchanged; hence every stored alert
\* has target_price > 0.
Rejections == {"format", "bad_symbol", "bad_price"}

InvalidAdd(parts) ==
    \/ Len(parts) # 2
    \/ parts[1] = "BTC-USD"
    \/ parts[2] \in {"0", "-1", "abc", "NaN"}

C16_ValidationRejects ==
    /\ [](\A id \in DOMAIN table : table[id].target_price > 0)
    /\ [][/\ \A u \in Users, parts \in AddArgs :
              (handle_add_message(u, parts) /\ InvalidAdd(parts)) =>
                  (AddAnswer(table, u, parts) \in Rejections /\ table' = table)
         /\ \A u \in Users, arg \in RemoveArgs :
              (handle_remove_message(u, arg) /\ arg \in {"", "x"}) =>
                  (RemoveAnswer(table, u, arg) \in Rejections /\ table' = table)]_vars

\* C17: an id is never reused: the id of a created alert is larger than
\* every id assigned before, also those of alerts removed since.
C17_IdNeverReused ==
    [][/\ seq' >= seq
       /\ \A id \in DOMAIN table' \ DOMAIN table : id > seq /\ id = seq']_vars

\* alert 1 has been removed and the alert created last has id 2
C17_Witness ==
    /\ seq = 2
    /\ DOMAIN table = {2}
    /\ table[2].last_price = None
    /\ clock > 0

C19_FetchOncePerSymbol ==
    /\ pc = "fetch" => (alerts # <<>> /\ pending # <<>>)
    /\ alerts = <<>> => (pending = <<>> /\ prices = <<>>)
    /\ \A k \in 1 .. Len(pending), l \in 1 .. Len(pending) :
           k # l => pending[k] # pending[l]
    /\ \A k \in 1 .. Len(pending) : pending[k] \notin DOMAIN prices
    /\ Len(pending) + Cardinality(DOMAIN prices)
           <= Cardinality({alerts[k].symbol : k \in 1 .. Len(alerts)})

\* two loaded alerts have the same symbol and one price was fetched
C19_Witness ==
    /\ pc = "iter"
    /\ Len(alerts) = 2
    /\ alerts[1].symbol = alerts[2].symbol
    /\ Cardinality(DOMAIN prices) = 1
    /\ pending = <<>>

\* C20: a cycle that loaded an alert before it was removed writes its state
\* for that id without bringing the alert back and without touching any other
\* row, and the set of ids in the store changes only in an add (which only
\* adds ids) or a remove (which only takes ids away).
C20_RemoveDuringCycle ==
    [][/\ (pc = "update" /\ pc' = "iter") =>
            /\ DOMAIN table' = DOMAIN table
            /\ \A id \in DOMAIN table :
                   id # alerts[i].alert_id => table'[id] = table[id]
       /\ DOMAIN table' # DOMAIN table => (handle_add \/ handle_remove)
       /\ ~(DOMAIN table' \subseteq DOMAIN table) => handle_add
       /\ ~(DOMAIN table \subseteq DOMAIN table') => handle_remove]_vars

\* the state of an alert removed after the load has been written while
\* another alert is in the store
C20_Witness ==
    /\ pc = "iter"
    /\ i > 1
    /\ alerts[i - 1].alert_id \notin DOMAIN table
    /\ table # <<>>

\* C21 (as claimed): once remove_alert has returned removed for an id, no
\* message is delivered for that alert any more, also when the removal comes
\* while a poll cycle is in progress.
C21_NoNotifyAfterRemove ==
    [][sent' # sent => alerts[i].alert_id \notin removed]_vars

\* C21 (amended): once remove_alert has returned removed for an id, a cycle that
\* loads its alerts after the removal does not load that alert, the list of a
\* cycle stays as loaded until the cycle ends, and a message is delivered only
\* for an alert of that list, once in the cycle: only the cycle that loaded
\* the alert before the removal can still deliver one message for it.
C21_NoNotifyAfterReload ==
    [][/\ (pc = "load" /\ pc' # "load") =>
            \A k \in 1 .. Len(alerts') : alerts'[k].alert_id \notin removed
       /\ (pc # "load" /\ alerts' # alerts) => (pc' = "sleeping" /\ alerts' = <<>>)
       /\ sent' # sent =>
            /\ i \in 1 .. Len(alerts)
            /\ sent' \ sent = {<<alerts[i].alert_id, now>>}
            /\ alerts[i].alert_id \notin notified]_vars

\* a message is delivered for an alert in a cycle that loaded its alerts after
\* an older alert was removed
C21_Witness ==
    /\ pc = "update"
    /\ alerts[i].alert_id \in notified
    /\ \A k \in 1 .. Len(alerts) : alerts[k].alert_id \notin removed
    /\ \E r \in removed : r < alerts[1].alert_id
====
